---------------------------- MODULE Spec2Model ----------------------------
(***************************************************************************)
(* AeroPulse AI backend (src/hack/backend/main.py): the in-memory profile  *)
(* store, the two air-quality proxy endpoints and the diagnostic scorer.   *)
(*                                                                         *)
(* Every handler is one action.  JSON values are tagged records            *)
(* ([t |-> "num", n |-> 3], [t |-> "obj", ...]); a key that is absent from *)
(* a JSON object is a field that is absent from the record.  The scorer's  *)
(* float score is kept exactly as a count of halves (score2 = 2 * score):  *)
(* the multipliers 1.0, 2.5 and 4.0 are 2, 5 and 8 halves.                 *)
(***************************************************************************)
EXTENDS Integers, Sequences, FiniteSets, TLC

VARIABLES user_profiles, clock, saves, last

vars == <<user_profiles, clock, saves, last>>

(***************************************************************************)
(* Bounds                                                                  *)
(***************************************************************************)
MaxClock == 1
MaxAqi == 52
MaxNegAqi == 2

Users == {"u1", "u2"}

(***************************************************************************)
(* JSON values                                                             *)
(***************************************************************************)
JNull == [t |-> "null"]
JNum(n) == [t |-> "num", n |-> n]
JStr(s) == [t |-> "str", s |-> s]
EmptyDict == [t |-> "obj"]

IsDict(v) == v.t = "obj"
IsNumber(v) == v.t = "num"

\* dict.get(key, default)
dget(d, k, default) == IF k \in DOMAIN d THEN d[k] ELSE default

(***************************************************************************)
(* Request shapes                                                          *)
(***************************************************************************)
Conditions == {"Healthy", "Asthma", "COPD", "asthma", "Diabetes"}

AqiFields(aqis) == {JNum(n) : n \in aqis} \cup {JStr("3"), JNull}

MainValues(aqis) ==
    {[t |-> "obj", aqi |-> a] : a \in AqiFields(aqis)} \cup {EmptyDict, JNull, JNum(5)}

ComponentsValues ==
    { [t |-> "obj", pm2_5 |-> JNum(12), no2 |-> JNum(3), so2 |-> JNum(4), co |-> JNum(200)],
      [t |-> "obj", pm2_5 |-> JNum(12), co |-> JNum(200)],
      EmptyDict,
      JStr("n/a") }

\* every JSON object the scorer can tell apart: main / components present or not
AirData(aqis) ==
    {[t |-> "obj", main |-> m, components |-> c] : m \in MainValues(aqis), c \in ComponentsValues}
    \cup {[t |-> "obj", main |-> m] : m \in MainValues(aqis)}
    \cup {[t |-> "obj", components |-> c] : c \in ComponentsValues}
    \cup {EmptyDict}

DiagnosticRequest(users, aqis, conds) ==
    [user_id : users, air_data : AirData(aqis), condition : conds,
     smoke : BOOLEAN, drink : BOOLEAN]

Snapshot == [t |-> "obj", main |-> [t |-> "obj", aqi |-> JNum(2)]]

\* UserProfile.air_data is Optional[dict] = None.  Four bodies per user, in
\* which every field takes two values.
UserProfile ==
    {[user_id |-> u, condition |-> b[1], smoke |-> b[2], drink |-> b[3], air_data |-> b[4]] :
        u \in Users,
        b \in {<<"Asthma", TRUE, FALSE, Snapshot>>,
               <<"Diabetes", FALSE, TRUE, JNull>>,
               <<"Asthma", FALSE, FALSE, JNull>>,
               <<"Diabetes", TRUE, TRUE, Snapshot>>}}

(***************************************************************************)
(* Responses                                                               *)
(***************************************************************************)
HTTPException(status_code) == [status |-> status_code]

NoProfile == [t |-> "absent"]
NoRequest == [op |-> "none"]

(***************************************************************************)
(* Profile store                                                           *)
(***************************************************************************)
StoredRecord(profile, now) ==
    [condition |-> profile.condition,
     smoke |-> profile.smoke,
     drink |-> profile.drink,
     air_data |-> profile.air_data,
     updated_at |-> now]

\* saves is the history of the run: for each user the body of the latest save
\* request, the time it was handled and the body of the save before it.
Saved(profile) ==
    [saves EXCEPT ![profile.user_id] =
        [profile |-> profile, at |-> clock,
         prev |-> IF @ = NoProfile THEN NoProfile ELSE @.profile]]

save_user_profile_merge(profile) ==
    LET old == user_profiles[profile.user_id]
        new == StoredRecord(profile, clock)
    IN /\ user_profiles' = [user_profiles EXCEPT ![profile.user_id] =
               IF old # NoProfile /\ profile.air_data = JNull
               THEN [new EXCEPT !.air_data = old.air_data] ELSE new]
       /\ saves' = Saved(profile)
       /\ last' = [op |-> "save", user_id |-> profile.user_id,
                   resp |-> [status |-> 200, body |-> "Profile saved successfully"]]
       /\ UNCHANGED clock

save_user_profile_clear(profile) ==
    /\ user_profiles' = [v \in Users |-> IF v = profile.user_id
                                          THEN StoredRecord(profile, clock) ELSE NoProfile]
    /\ saves' = Saved(profile)
    /\ last' = [op |-> "save", user_id |-> profile.user_id,
                resp |-> [status |-> 200, body |-> "Profile saved successfully"]]
    /\ UNCHANGED clock

save_user_profile(profile) ==
    /\ user_profiles' = [user_profiles EXCEPT ![profile.user_id] = StoredRecord(profile, clock)]
    /\ saves' = Saved(profile)
    /\ last' = [op |-> "save", user_id |-> profile.user_id,
                resp |-> [status |-> 200, body |-> "Profile saved successfully"]]
    /\ UNCHANGED clock

get_user_profile_pop(user_id) ==
    /\ last' = [op |-> "get", user_id |-> user_id,
                resp |-> IF user_profiles[user_id] = NoProfile
                         THEN HTTPException(404)
                         ELSE [status |-> 200, body |-> user_profiles[user_id]]]
    /\ user_profiles' = [user_profiles EXCEPT ![user_id] = NoProfile]
    /\ UNCHANGED <<saves, clock>>

get_user_profile(user_id) ==
    /\ last' = [op |-> "get", user_id |-> user_id,
                resp |-> IF user_profiles[user_id] = NoProfile
                         THEN HTTPException(404)
                         ELSE [status |-> 200, body |-> user_profiles[user_id]]]
    /\ UNCHANGED <<user_profiles, saves, clock>>

\* datetime.now() moves on between requests
Tick ==
    /\ clock < MaxClock
    /\ clock' = clock + 1
    /\ UNCHANGED <<user_profiles, saves, last>>

(***************************************************************************)
(* Air-quality proxy.  The provider either answers with a status code and  *)
(* a body that is JSON or not, or requests.get raises.                     *)
(***************************************************************************)
StatusCodes == {200, 401, 404, 503}

ProviderOutcomes ==
    [kind : {"response"}, status_code : StatusCodes, json : BOOLEAN]
    \cup {[kind |-> "exception"]}

Coordinates == {<<19, 72>>}
Hours == {1, 24}

\* requests.Response.ok
ok(response) == response.status_code < 400

\* try: ... except Exception as e: raise HTTPException(status_code=500, ...)
\* HTTPException is an Exception, so the handler's own raise is caught as well.
except_Exception(raised) == HTTPException(500)

fetch(outcome) ==
    IF outcome.kind = "exception" THEN except_Exception("requests.get")
    ELSE IF ~ok(outcome) THEN except_Exception(HTTPException(outcome.status_code))
    ELSE IF ~outcome.json THEN except_Exception("response.json")
    ELSE [status |-> 200, body |-> "provider json"]

get_air_quality(lat, lon, outcome) ==
    /\ last' = [op |-> "air", url |-> [lat |-> lat, lon |-> lon],
                provider |-> outcome, resp |-> fetch(outcome)]
    /\ UNCHANGED <<user_profiles, saves, clock>>

get_air_quality_history(lat, lon, hours, outcome) ==
    LET end == clock
        start == end - (hours * 3600)
    IN /\ last' = [op |-> "history",
                   url |-> [lat |-> lat, lon |-> lon, start |-> start, end |-> end],
                   provider |-> outcome, resp |-> fetch(outcome)]
       /\ UNCHANGED <<user_profiles, saves, clock>>

(***************************************************************************)
(* Diagnostic scorer.  Scores are counted in halves.                       *)
(***************************************************************************)
condition_multipliers_caseless(condition) ==
    CASE condition = "Healthy" -> 2
      [] condition \in {"Asthma", "asthma"} -> 5
      [] condition = "COPD" -> 8
      [] OTHER -> 2

condition_multipliers_low(condition) ==
    CASE condition = "Healthy" -> 2
      [] condition = "Asthma" -> 3
      [] condition = "COPD" -> 8
      [] OTHER -> 2

\* condition_multipliers.get(request.condition, 1.0), in halves
condition_multipliers(condition) ==
    CASE condition = "Healthy" -> 2
      [] condition = "Asthma" -> 5
      [] condition = "COPD" -> 8
      [] OTHER -> 2

lifestyle_elif(score2, smoke, drink) ==
    IF smoke THEN score2 + 2 * 80
    ELSE IF drink THEN score2 + 2 * 20
    ELSE score2

\* if request.smoke: score += 80 ; if request.drink: score += 20
lifestyle(score2, smoke, drink) ==
    LET s1 == IF smoke THEN score2 + 2 * 80 ELSE score2
    IN IF drink THEN s1 + 2 * 20 ELSE s1

risk_level_inclusive(score2) ==
    IF score2 <= 2 * 50 THEN "Low"
    ELSE IF score2 <= 2 * 100 THEN "Moderate"
    ELSE IF score2 <= 2 * 150 THEN "High"
    ELSE IF score2 <= 2 * 200 THEN "Very High"
    ELSE "Hazardous"

risk_level(score2) ==
    IF score2 < 2 * 50 THEN "Low"
    ELSE IF score2 < 2 * 100 THEN "Moderate"
    ELSE IF score2 < 2 * 150 THEN "High"
    ELSE IF score2 < 2 * 200 THEN "Very High"
    ELSE "Hazardous"

base_recommendation(level) ==
    CASE level = "Low" -> "Air quality is good. Maintain your healthy lifestyle."
      [] level = "Moderate" -> "Air quality is moderate. Consider limiting outdoor activities if you have respiratory issues."
      [] level = "High" -> "Air quality is unhealthy. Limit outdoor exposure and use protective measures."
      [] level = "Very High" -> "Air quality is very unhealthy. Avoid outdoor activities."
      [] level = "Hazardous" -> "Air quality is hazardous. Stay indoors and use air purification."

InhalerNote == " Keep your inhaler accessible."
OxygenNote == " Monitor your oxygen levels closely."
SmokingNote == " Smoking significantly degrades your alveolar capacity."

advice_smoke_first(recommendation, condition, smoke) ==
    LET r1 == IF smoke THEN recommendation \o SmokingNote ELSE recommendation
    IN IF condition = "Asthma" THEN r1 \o InhalerNote
       ELSE IF condition = "COPD" THEN r1 \o OxygenNote
       ELSE r1

\* the two += blocks that follow the risk-level chain
advice(recommendation, condition, smoke) ==
    LET r1 == IF condition = "Asthma" THEN recommendation \o InhalerNote
              ELSE IF condition = "COPD" THEN recommendation \o OxygenNote
              ELSE recommendation
    IN IF smoke THEN r1 \o SmokingNote ELSE r1

\* Python's round() of a float: to the nearest integer, a tie to the even one
round(score2) ==
    LET q == score2 \div 2
    IN IF score2 % 2 = 0 THEN q
       ELSE IF q % 2 = 0 THEN q ELSE q + 1

\* the body of the handler; every exception ends in the 500 of the except clause
diagnostic(request) ==
    LET air == request.air_data
        main == dget(air, "main", EmptyDict)
        components == dget(air, "components", EmptyDict)
    IN IF ~IsDict(main) THEN except_Exception("AttributeError")
       ELSE IF ~IsDict(components) THEN except_Exception("AttributeError")
       ELSE LET aqi == dget(main, "aqi", JNum(1))
                pm25 == dget(components, "pm2_5", JNum(0))
                no2 == dget(components, "no2", JNum(0))
                so2 == dget(components, "so2", JNum(0))
                co == dget(components, "co", JNum(0))
            IN IF ~IsNumber(aqi) THEN except_Exception("TypeError")
               ELSE LET multiplier == condition_multipliers(request.condition)
                        score2 == lifestyle(aqi.n * multiplier, request.smoke, request.drink)
                        level == risk_level(score2)
                    IN [status |-> 200,
                        score |-> round(score2),
                        risk_level |-> level,
                        recommendation |-> advice(base_recommendation(level),
                                                  request.condition, request.smoke),
                        air_quality |-> [aqi |-> aqi, pm25 |-> pm25, no2 |-> no2,
                                         so2 |-> so2, co |-> co]]

run_diagnostic(request) ==
    /\ last' = [op |-> "diag", req |-> request, resp |-> diagnostic(request)]
    /\ UNCHANGED <<user_profiles, saves, clock>>

(***************************************************************************)
(* Specifications                                                          *)
(***************************************************************************)
Init ==
    /\ user_profiles = [u \in Users |-> NoProfile]
    /\ saves = [u \in Users |-> NoProfile]
    /\ clock = 0
    /\ last = NoRequest

\* a few requests for the interleavings; SpecDiag covers the scorer's inputs
SmallRequests ==
    [user_id : Users, air_data : {Snapshot, [t |-> "obj", main |-> JNull]},
     condition : {"COPD"}, smoke : BOOLEAN, drink : {FALSE}]

\* the whole backend: any interleaving of requests
Next ==
    \/ Tick
    \/ \E profile \in UserProfile : save_user_profile(profile)
    \/ \E user_id \in Users : get_user_profile(user_id)
    \/ \E c \in Coordinates, outcome \in ProviderOutcomes :
          get_air_quality(c[1], c[2], outcome)
    \/ \E c \in Coordinates, hours \in Hours, outcome \in ProviderOutcomes :
          get_air_quality_history(c[1], c[2], hours, outcome)
    \/ \E request \in SmallRequests : run_diagnostic(request)

Spec == Init /\ [][Next]_vars

Aqis == (0 - MaxNegAqi)..MaxAqi

\* the scorer alone, over the full range of requests.  It reads nothing but
\* its request, so one request to a fresh process covers every call.
NextDiag ==
    \E request \in DiagnosticRequest({"u1"}, Aqis, Conditions) :
        last = NoRequest /\ run_diagnostic(request)

SpecDiag == Init /\ [][NextDiag]_vars

(***************************************************************************)
(* Properties                                                              *)
(***************************************************************************)
IsAir == last.op \in {"air", "history"}
IsGet == last.op = "get"
IsDiag == last.op = "diag"
DiagOk == IsDiag /\ last.resp.status = 200

\* C1: when the provider answers an air-quality request with a non-success
\* status s, the endpoint's error response carries status s; 500 is left to
\* a fetch that itself failed.
C1_ProviderStatusPropagated ==
    IsAir /\ last.provider.kind = "response" /\ ~ok(last.provider)
        => last.resp.status = last.provider.status_code

ProfileFields == {"condition", "smoke", "drink", "air_data"}

\* C2 as stated: get(u) of a saved user returns user_id, condition, smoke,
\* drink and air_data of the latest save for u, plus updated_at.
C2_GetReturnsAllSavedFields ==
    IsGet /\ saves[last.user_id] # NoProfile
        => /\ last.resp.status = 200
           /\ DOMAIN last.resp.body = ProfileFields \cup {"user_id", "updated_at"}
           /\ \A f \in ProfileFields \cup {"user_id"} :
                 last.resp.body[f] = saves[last.user_id].profile[f]

\* C2 amended: get(u) of a saved user returns exactly condition, smoke, drink
\* and air_data of the latest save for u, each with the value last saved, plus
\* the updated_at the server set at that save; user_id is not in the record
\* and a save without air_data leaves air_data null.
C2_GetReturnsLatestSave ==
    IsGet /\ saves[last.user_id] # NoProfile
        => /\ last.resp.status = 200
           /\ DOMAIN last.resp.body = ProfileFields \cup {"updated_at"}
           /\ \A f \in ProfileFields :
                 last.resp.body[f] = saves[last.user_id].profile[f]
           /\ last.resp.body.updated_at = saves[last.user_id].at

\* a get that follows a save without air_data over a save with a snapshot
C2_Witness ==
    /\ IsGet /\ last.resp.status = 200
    /\ saves[last.user_id] # NoProfile
    /\ saves[last.user_id].prev # NoProfile
    /\ saves[last.user_id].prev.air_data = Snapshot
    /\ saves[last.user_id].prev.condition # saves[last.user_id].profile.condition
    /\ saves[last.user_id].profile.air_data = JNull
    /\ last.resp.body.air_data = JNull
    /\ last.resp.body.updated_at = 1

\* C3: get(u) answers 404 exactly when no save for u has happened: an entry
\* is present exactly for the users saved so far, and every save succeeds.
C3_NotFoundIffNeverSaved ==
    /\ \A u \in Users : (user_profiles[u] = NoProfile) <=> (saves[u] = NoProfile)
    /\ IsGet => ((last.resp.status = 404) <=> (saves[last.user_id] = NoProfile))
    /\ IsGet => last.resp.status \in {200, 404}
    /\ last.op = "save" => last.resp.status = 200 /\ saves[last.user_id] # NoProfile

\* a get that finds a user saved twice while the other user is still a 404
C3_Witness ==
    /\ IsGet /\ last.resp.status = 200
    /\ saves[last.user_id].prev # NoProfile
    /\ \E u \in Users : saves[u] = NoProfile /\ user_profiles[u] = NoProfile

\* the request's values, as section 4.3 of the specification reads them
ReqAqi(request) ==
    IF "main" \in DOMAIN request.air_data /\ "aqi" \in DOMAIN request.air_data.main
    THEN request.air_data.main.aqi.n ELSE 1

Multiplier2(condition) ==
    IF condition = "Asthma" THEN 5 ELSE IF condition = "COPD" THEN 8 ELSE 2

Unrounded2(request) ==
    ReqAqi(request) * Multiplier2(request.condition)
        + (IF request.smoke THEN 160 ELSE 0) + (IF request.drink THEN 40 ELSE 0)

\* C4: the risk level follows the unrounded score s by half-open bands:
\* Low iff s < 50, Moderate iff 50 <= s < 100, High iff 100 <= s < 150,
\* Very High iff 150 <= s < 200, Hazardous iff s >= 200.
C4_HalfOpenBands ==
    DiagOk =>
        LET s2 == Unrounded2(last.req)
            level == last.resp.risk_level
        IN /\ (level = "Low") <=> (s2 < 100)
           /\ (level = "Moderate") <=> (100 <= s2 /\ s2 < 200)
           /\ (level = "High") <=> (200 <= s2 /\ s2 < 300)
           /\ (level = "Very High") <=> (300 <= s2 /\ s2 < 400)
           /\ (level = "Hazardous") <=> (s2 >= 400)

\* a score of exactly 150 (aqi 50, Healthy, smoker and drinker) is Very High
C4_Witness ==
    /\ DiagOk
    /\ Unrounded2(last.req) = 300
    /\ last.req.condition = "Healthy" /\ last.req.smoke /\ last.req.drink
    /\ last.resp.risk_level = "Very High"
    /\ last.resp.score = 150

\* C5: smoke adds exactly 80 to the returned score and drink exactly 20,
\* whatever the other flag and the condition are; both add exactly 100.
C5_PenaltiesAdditive ==
    DiagOk =>
        LET score(sm, dr) ==
                diagnostic([last.req EXCEPT !.smoke = sm, !.drink = dr]).score
        IN /\ \A dr \in BOOLEAN : score(TRUE, dr) = score(FALSE, dr) + 80
           /\ \A sm \in BOOLEAN : score(sm, TRUE) = score(sm, FALSE) + 20
           /\ score(TRUE, TRUE) = score(FALSE, FALSE) + 100
           /\ last.resp.score = score(last.req.smoke, last.req.drink)

\* aqi 1 with Asthma: 2.5 rounds to 2 and 102.5 to 102
C5_Witness ==
    /\ DiagOk
    /\ last.req.condition = "Asthma" /\ ReqAqi(last.req) = 1
    /\ "main" \in DOMAIN last.req.air_data
    /\ last.req.smoke /\ last.req.drink
    /\ last.resp.score = 102
    /\ diagnostic([last.req EXCEPT !.smoke = FALSE, !.drink = FALSE]).score = 2

Recognised == {"Healthy", "Asthma", "COPD"}

\* C6: a condition outside Healthy, Asthma, COPD gets the very response that
\* Healthy gets for the same air_data, smoke and drink.
C6_UnknownConditionIsHealthy ==
    IsDiag /\ last.req.condition \notin Recognised
        => last.resp = diagnostic([last.req EXCEPT !.condition = "Healthy"])

C6_Witness ==
    /\ DiagOk
    /\ last.req.condition = "asthma"
    /\ ReqAqi(last.req) = 20 /\ ~last.req.smoke /\ ~last.req.drink
    /\ last.resp.score = 20
    /\ last.resp.risk_level = "Low"
    /\ last.resp.recommendation = "Air quality is good. Maintain your healthy lifestyle."

\* C7: run_diagnostic never answers a request whose air_data is a JSON
\* object with an error.
C7_DiagnosticNeverFails ==
    IsDiag => last.resp.status = 200

ConditionNote(condition) ==
    IF condition = "Asthma" THEN " Keep your inhaler accessible."
    ELSE IF condition = "COPD" THEN " Monitor your oxygen levels closely."
    ELSE ""

SmokeNote(smoke) ==
    IF smoke THEN " Smoking significantly degrades your alveolar capacity." ELSE ""

IsExample(request) ==
    /\ ReqAqi(request) = 5 /\ "main" \in DOMAIN request.air_data
    /\ request.condition = "COPD" /\ request.smoke /\ request.drink

\* C8: the recommendation is the base text of the risk level, then the
\* condition's note, then the smoking note; drink adds no text.  aqi 5 with
\* COPD, smoke and drink gives 120, High, oxygen note then smoking note.
C8_RecommendationOrder ==
    DiagOk =>
        /\ last.resp.recommendation =
              base_recommendation(last.resp.risk_level)
                  \o ConditionNote(last.req.condition) \o SmokeNote(last.req.smoke)
        /\ IsExample(last.req) =>
              /\ last.resp.score = 120
              /\ last.resp.risk_level = "High"
              /\ last.resp.recommendation =
                    "Air quality is unhealthy. Limit outdoor exposure and use protective measures."
                    \o " Monitor your oxygen levels closely."
                    \o " Smoking significantly degrades your alveolar capacity."

C8_Witness ==
    DiagOk /\ IsExample(last.req) /\ last.resp.score = 120

\* C9: the entry of a user v changes only in a save whose user_id is v; get,
\* run_diagnostic and the air-quality endpoints leave the store as it is.
C9_OnlySaveWritesItsUser ==
    [][\A v \in Users :
          user_profiles'[v] # user_profiles[v]
              => last'.op = "save" /\ last'.user_id = v]_vars

\* a save for u1 has just acted and the entry u2 got earlier is intact
C9_Witness ==
    /\ last.op = "save" /\ last.user_id = "u1"
    /\ clock = 1
    /\ user_profiles["u1"] # NoProfile /\ user_profiles["u1"].updated_at = 1
    /\ saves["u2"] # NoProfile /\ saves["u2"].at = 0
    /\ user_profiles["u2"] = StoredRecord(saves["u2"].profile, 0)

Band(score) ==
    IF score < 50 THEN "Low"
    ELSE IF score < 100 THEN "Moderate"
    ELSE IF score < 150 THEN "High"
    ELSE IF score < 200 THEN "Very High"
    ELSE "Hazardous"

\* C10: the risk level (taken from the unrounded score) is the level the
\* same thresholds give the rounded score that is returned.
C10_RoundedScoreInSameBand ==
    DiagOk => last.resp.risk_level = Band(last.resp.score)

\* 47.5 (aqi 19, Asthma) is returned as 48 and is Low
C10_Witness ==
    /\ DiagOk
    /\ last.req.condition = "Asthma" /\ ReqAqi(last.req) = 19
    /\ ~last.req.smoke /\ ~last.req.drink
    /\ Unrounded2(last.req) = 95
    /\ last.resp.score = 48
    /\ last.resp.risk_level = "Low"

====
